---- MODULE Spec2Model ----
(***************************************************************************)
(* Model of the Tachi Python SDK (tachi_sdk/__init__.py): the pay-per-crawl*)
(* fetch flow of TachiSDK.fetch_with_tachi, its HTTP retry loop, the 402   *)
(* terms parser and the on-chain approval / payment steps.                 *)
(*                                                                         *)
(* Python strings are tuples of one-character strings, so that parsing and *)
(* formatting are computed and not assumed.  Python's None is NoneVal.     *)
(***************************************************************************)
EXTENDS Integers, Sequences, FiniteSets, TLC

(* ------------------------------------------------------------------ *)
(* Bounds of the model                                                 *)
(* ------------------------------------------------------------------ *)

\* largest config.max_retries explored (0 is included: the code accepts it)
MaxRetries == 3

\* smallest config.max_retries explored: the field is an int nothing checks
MinRetries == -1

\* the client processes that may run a flow
Procs == {1, 2}

(* ------------------------------------------------------------------ *)
(* Strings, None, integers as digit strings                            *)
(* ------------------------------------------------------------------ *)

NoneVal == <<"<None>">>

EmptyStr == <<>>

DigitStr == <<"0", "1", "2", "3", "4", "5", "6", "7", "8", "9">>

DigitChars == {DigitStr[i] : i \in 1..10}

DigitVal(c) == (CHOOSE i \in 1..10 : DigitStr[i] = c) - 1

\* Python truthiness of an Optional[str]:  `x or default`
Truthy(s) == s # NoneVal /\ s # EmptyStr

RECURSIVE StripLeadingZeros(_)
\* str(int(digits)) for a non-empty digit string
StripLeadingZeros(ds) ==
    IF Len(ds) > 1 /\ ds[1] = "0" THEN StripLeadingZeros(Tail(ds)) ELSE ds

RECURSIVE IntToDigits(_)
\* str(n) for a Python int n >= 0
IntToDigits(n) ==
    IF n < 10 THEN <<DigitStr[n + 1]>>
    ELSE IntToDigits(n \div 10) \o <<DigitStr[(n % 10) + 1]>>

RECURSIVE DigitsToInt(_)
\* int(digits); used only on values below 2^31
DigitsToInt(ds) ==
    IF Len(ds) = 0 THEN 0
    ELSE 10 * DigitsToInt(SubSeq(ds, 1, Len(ds) - 1)) + DigitVal(ds[Len(ds)])

RECURSIVE DigitsLess(_, _)
\* a < b for two digit strings of equal length
DigitsLess(a, b) ==
    IF Len(a) = 0 THEN FALSE
    ELSE IF a[1] # b[1] THEN DigitVal(a[1]) < DigitVal(b[1])
    ELSE DigitsLess(Tail(a), Tail(b))

\* a < b for Python ints held as digit strings without leading zeros
BigLess(a, b) ==
    IF Len(a) # Len(b) THEN Len(a) < Len(b) ELSE DigitsLess(a, b)

RECURSIVE Zeros(_)
Zeros(n) == IF n <= 0 THEN <<>> ELSE <<"0">> \o Zeros(n - 1)

IsZeroDigits(ds) == \A i \in 1..Len(ds) : ds[i] = "0"

(* ------------------------------------------------------------------ *)
(* decimal.Decimal, as the standard library computes it                *)
(* a Decimal is [ok, int, exp]: coefficient digits and exponent        *)
(* ------------------------------------------------------------------ *)

USDC_DECIMALS == 6

BadDecimal == [ok |-> FALSE, int |-> <<"0">>, exp |-> 0]

\* Decimal(s) for s a string: digits with at most one "." ; anything else
\* raises decimal.InvalidOperation (ok = FALSE)
DecimalOf(s) ==
    LET dots == {i \in 1..Len(s) : s[i] = "."}
        wellformed == /\ s # NoneVal
                      /\ Len(s) > 0
                      /\ \A i \in 1..Len(s) : s[i] \in DigitChars \cup {"."}
                      /\ Cardinality(dots) <= 1
                      /\ \E i \in 1..Len(s) : s[i] \in DigitChars
    IN IF ~wellformed THEN BadDecimal
       ELSE IF dots = {} THEN [ok |-> TRUE, int |-> StripLeadingZeros(s), exp |-> 0]
       ELSE LET k == CHOOSE i \in dots : TRUE
                intpart == SubSeq(s, 1, k - 1)
                frac == SubSeq(s, k + 1, Len(s))
            IN [ok |-> TRUE,
                int |-> StripLeadingZeros(intpart \o frac),
                exp |-> 0 - Len(frac)]

RECURSIVE DivStrip(_, _, _)
\* the exact-quotient loop of Decimal.__truediv__: drop trailing zeros of the
\* coefficient while the exponent is below the ideal exponent
DivStrip(ds, exp, ideal) ==
    IF exp < ideal /\ ds[Len(ds)] = "0"
    THEN IF Len(ds) = 1 THEN DivStrip(ds, exp + 1, ideal)
         ELSE DivStrip(SubSeq(ds, 1, Len(ds) - 1), exp + 1, ideal)
    ELSE [ok |-> TRUE, int |-> ds, exp |-> exp]

\* d / Decimal(10**6)
DecDivUnit(d) == DivStrip(d.int, d.exp - USDC_DECIMALS, d.exp)

\* d * Decimal(10**6): coefficients multiply, exponents add
DecMulUnit(d) ==
    [ok |-> TRUE,
     int |-> IF IsZeroDigits(d.int) THEN <<"0">> ELSE d.int \o Zeros(USDC_DECIMALS),
     exp |-> d.exp]

\* str(d) in plain notation (exp <= 0 and more than -6 digits left of the point)
DecStr(d) ==
    LET n == Len(d.int)
        leftdigits == n + d.exp
    IN IF d.exp = 0 THEN d.int
       ELSE IF leftdigits > 0
            THEN SubSeq(d.int, 1, leftdigits) \o <<".">> \o SubSeq(d.int, leftdigits + 1, n)
            ELSE <<"0", ".">> \o Zeros(0 - leftdigits) \o d.int

\* int(d) as a digit string: truncation toward zero
DecToInt(d) ==
    IF d.exp >= 0 THEN StripLeadingZeros(d.int \o Zeros(d.exp))
    ELSE IF Len(d.int) + d.exp <= 0 THEN <<"0">>
    ELSE StripLeadingZeros(SubSeq(d.int, 1, Len(d.int) + d.exp))

(* ------------------------------------------------------------------ *)
(* Addresses: Web3.to_checksum_address                                 *)
(* an address is "0x" followed by two hex characters (40 in the code)  *)
(* ------------------------------------------------------------------ *)

LowerHex == {"a", "b"}

UpperHex == {"A", "B"}

UpperOf(c) == IF c = "a" THEN "A" ELSE IF c = "b" THEN "B" ELSE c

\* is_address: the shape, and for a mixed-case string the checksum casing
IsAddress(s) ==
    /\ s # NoneVal
    /\ Len(s) = 3
    /\ s[1] = "0x"
    /\ \A i \in 2..Len(s) : s[i] \in DigitChars \cup LowerHex \cup UpperHex
    /\ \/ \A i \in 2..Len(s) : s[i] \notin UpperHex
       \/ \A i \in 2..Len(s) : s[i] \notin LowerHex

\* the checksummed form (the casing the address hash dictates)
ChecksumForm(s) == [i \in 1..Len(s) |-> UpperOf(s[i])]

\* Web3.to_checksum_address(s): ValueError unless s is an address
ToChecksumAddress(s) ==
    IF IsAddress(s) THEN [ok |-> TRUE, v |-> ChecksumForm(s)]
    ELSE [ok |-> FALSE, v |-> EmptyStr]

(* ------------------------------------------------------------------ *)
(* int(str): ValueError unless the string is decimal digits            *)
(* ------------------------------------------------------------------ *)

DEFAULT_CHAIN_ID == 8453

IsIntLiteral(s) ==
    /\ s # NoneVal
    /\ Len(s) > 0
    /\ \A i \in 1..Len(s) : s[i] \in DigitChars

(* ------------------------------------------------------------------ *)
(* 402 responses                                                       *)
(* ------------------------------------------------------------------ *)

STR_USDC == <<"U", "S", "D", "C">>

STR_Base == <<"B", "a", "s", "e">>

\* body.get('payment', {}) raises AttributeError when the body is JSON but
\* not an object, or its "payment" member is not an object
BodyIsMapping(body) == body.kind # "nonobject" /\ body.payment.kind # "nondict"

\* body.get('payment', {}).get(key, default); a body that is not JSON is {}
PaymentField(body, key, default) ==
    IF /\ body.kind = "object"
       /\ body.payment.kind = "dict"
       /\ body.payment[key] # NoneVal
    THEN body.payment[key]
    ELSE default

NoPaymentInfo ==
    [amount |-> NoneVal, currency |-> NoneVal, network |-> NoneVal, chain_id |-> 0,
     recipient |-> NoneVal, token_address |-> NoneVal, token_id |-> NoneVal]

ParseOutcome(type, info) == [raised |-> type, info |-> info]

\* the validation of lines 332-333: both addresses must be truthy
MissingAddress(info) == ~Truthy(info.recipient) \/ ~Truthy(info.token_address)

\* variant: the body value is preferred over the header
HeaderOr_BodyFirst(header, fallback) == IF Truthy(fallback) THEN fallback ELSE header

\* header or fallback: the header value when it is truthy
HeaderOr(header, fallback) == IF Truthy(header) THEN header ELSE fallback

\* TachiSDK._parse_payment_info, in the order Python evaluates it.
\* raised = "" when it returns; otherwise the type of the exception that
\* leaves the function (only PaymentError is raised by the function itself).
ParsePaymentInfo(response) ==
    LET body == response.body
        price == response.price
        currency == response.currency
        recipient == response.recipient
        token_address == response.contract
        chain_id == response.chain_id
        amount0 == HeaderOr(price, PaymentField(body, "amount", <<"0">>))
        convert == Truthy(price) /\ currency = STR_USDC
        amount == IF convert THEN DecStr(DecDivUnit(DecimalOf(price))) ELSE amount0
        currencyV == HeaderOr(currency, PaymentField(body, "currency", STR_USDC))
        networkV == PaymentField(body, "network", STR_Base)
        chainS == HeaderOr(chain_id,
                           PaymentField(body, "chainId", IntToDigits(DEFAULT_CHAIN_ID)))
        recipS == HeaderOr(recipient, PaymentField(body, "recipient", EmptyStr))
        tokenS == HeaderOr(token_address, PaymentField(body, "tokenAddress", EmptyStr))
        recipC == ToChecksumAddress(recipS)
        tokenC == ToChecksumAddress(tokenS)
        info == [amount |-> amount, currency |-> currencyV, network |-> networkV,
                 chain_id |-> DigitsToInt(chainS), recipient |-> recipC.v,
                 token_address |-> tokenC.v,
                 token_id |-> PaymentField(body, "tokenId", NoneVal)]
    IN IF ~Truthy(price) /\ ~BodyIsMapping(body)
       THEN ParseOutcome("AttributeError", NoPaymentInfo)
       ELSE IF convert /\ ~DecimalOf(price).ok
       THEN ParseOutcome("InvalidOperation", NoPaymentInfo)
       ELSE IF ~BodyIsMapping(body) THEN ParseOutcome("AttributeError", NoPaymentInfo)
       ELSE IF ~IsIntLiteral(chainS) THEN ParseOutcome("ValueError", NoPaymentInfo)
       ELSE IF ~recipC.ok THEN ParseOutcome("ValueError", NoPaymentInfo)
       ELSE IF ~tokenC.ok THEN ParseOutcome("ValueError", NoPaymentInfo)
       ELSE IF MissingAddress(info) THEN ParseOutcome("PaymentError", info)
       ELSE ParseOutcome("", info)

\* variant: the amount is not scaled back to base units
AmountInWei_NoScale(amount) == DecToInt(DecimalOf(amount))

\* int(Decimal(amount) * Decimal(10**6)), a Python int held as digits
AmountInWei(amount) == DecToInt(DecMulUnit(DecimalOf(amount)))

(* ------------------------------------------------------------------ *)
(* Inputs explored                                                     *)
(* ------------------------------------------------------------------ *)

PRICE_1USDC == <<"1", "0", "0", "0", "0", "0", "0">>

PRICE_HALF == <<"5", "0", "0", "0", "0", "0">>

PRICE_BAD == <<"a", "b", "c">>

\* the smallest price: one base unit
PRICE_1UNIT == <<"1">>

ADDR_BAD == <<"b", "a", "d">>

\* recipient and token contract as a server sends them (lower case)
RECIP_HDR == <<"0x", "a", "1">>

RECIP_BODY == <<"0x", "B", "2">>

TOKEN_HDR == <<"0x", "b", "3">>

TOKEN_BODY == <<"0x", "B", "4">>

PROCESSOR_ADDR == <<"0x", "A", "9">>

Spenders == {ChecksumForm(RECIP_HDR), ChecksumForm(RECIP_BODY)}

NoPaymentObject ==
    [kind |-> "absent", amount |-> NoneVal, currency |-> NoneVal, network |-> NoneVal,
     chainId |-> NoneVal, recipient |-> NoneVal, tokenAddress |-> NoneVal,
     tokenId |-> NoneVal]

NonJsonBody == [kind |-> "nonjson", payment |-> NoPaymentObject]

NonObjectBody == [kind |-> "nonobject", payment |-> NoPaymentObject]

NonDictPaymentBody == [kind |-> "object", payment |-> [NoPaymentObject EXCEPT !.kind = "nondict"]]

FullBody ==
    [kind |-> "object",
     payment |-> [kind |-> "dict", amount |-> <<"1", ".", "5">>,
                  currency |-> <<"E", "U", "R", "C">>,
                  network |-> <<"B", "a", "s", "e", "S">>,
                  chainId |-> <<"8", "4", "5", "3", "2">>,
                  recipient |-> RECIP_BODY, tokenAddress |-> TOKEN_BODY,
                  tokenId |-> <<"7">>]]

Bodies == {NonJsonBody, NonObjectBody, NonDictPaymentBody, FullBody}

PlainStatuses == {200, 404, 500}

PlainResponses ==
    {[status_code |-> st, price |-> NoneVal, currency |-> NoneVal, recipient |-> NoneVal,
      contract |-> NoneVal, chain_id |-> NoneVal, body |-> NonJsonBody] : st \in PlainStatuses}

PaymentRequiredResponses ==
    [status_code : {402},
     price : {NoneVal, PRICE_1USDC, PRICE_HALF, PRICE_1UNIT, PRICE_BAD},
     currency : {NoneVal, STR_USDC},
     recipient : {NoneVal, RECIP_HDR, ADDR_BAD},
     contract : {NoneVal, TOKEN_HDR},
     chain_id : {NoneVal, <<"x">>},
     body : Bodies]

InitialResponses == PlainResponses \cup PaymentRequiredResponses

\* a body whose payment object names the two addresses and nothing else
AddressOnlyBody ==
    [kind |-> "object",
     payment |-> [NoPaymentObject EXCEPT !.kind = "dict", !.recipient = RECIP_BODY,
                                         !.tokenAddress = TOKEN_BODY]]

STR_DAI == <<"D", "A", "I">>

CHAIN_HDR == <<"1">>

\* the 402 responses the parser alone is explored with: every header
\* absent, empty or given, over bodies that repeat or omit the fields
ParserResponses ==
    [status_code : {402},
     price : {NoneVal, EmptyStr, PRICE_HALF},
     currency : {NoneVal, EmptyStr, STR_USDC, STR_DAI},
     recipient : {NoneVal, EmptyStr, RECIP_HDR},
     contract : {NoneVal, TOKEN_HDR},
     chain_id : {NoneVal, CHAIN_HDR},
     body : {NonJsonBody, AddressOnlyBody, FullBody}]

ReplayStatuses == {200, 201, 402, 404}

HeaderNames == {"Authorization", "User-Agent", "X-Custom"}

NoHeaders == [h \in HeaderNames |-> NoneVal]

USER_AGENT == <<"TachiSDK-Python/1.0">>

URL == <<"https://site/page">>

CallerRequests ==
    {[url |-> URL, method |-> "GET", headers |-> NoHeaders, body |-> NoneVal],
     [url |-> URL, method |-> "POST",
      headers |-> [NoHeaders EXCEPT !["Authorization"] = <<"Basic old">>,
                                    !["X-Custom"] = <<"v">>],
      body |-> <<"data">>]}

Balances == {500000, 2000000}

Allowances == {0, 1000000}

\* the allowances the account has granted at the start: one spender holds
\* one of the two values and the other spender the other one
AllowanceMaps ==
    {[s \in Spenders |-> IF s = ChecksumForm(RECIP_HDR) THEN a
                         ELSE CHOOSE b \in Allowances : b # a] : a \in Allowances}

\* network names a TachiConfig is constructed with; the annotation of the
\* field (Literal['base', 'base-sepolia']) is not enforced at run time
Networks == {"base", "base-sepolia", "invalid-network"}

\* the token contract __post_init__ fills in for 'base' and 'base-sepolia'
USDC_BASE == <<"0x", "8", "3">>

USDC_BASE_SEPOLIA == <<"0x", "0", "3">>

\* self.account.address: the account derived from the private key, with
\* which every flow of the client signs
ACCOUNT == <<"0x", "E", "0">>

\* an account address given without a private key
ACCOUNT_ADDR == <<"0x", "A", "7">>

\* TachiConfig.__post_init__: the token contract address of the config
DefaultUsdcAddress(network, usdc_address) ==
    IF usdc_address # NoneVal THEN usdc_address
    ELSE IF network = "base" THEN USDC_BASE
    ELSE IF network = "base-sepolia" THEN USDC_BASE_SEPOLIA
    ELSE NoneVal

\* TachiConfig(network, ...) after __post_init__ ; a[1..6] are network,
\* private key given, account_address, usdc_address, payment_processor_address
\* and max_retries.  api_key is no field of the dataclass: NoneVal stands for
\* the attribute not being there
TachiConfig(a) ==
    [network |-> a[1],
     has_private_key |-> a[2],
     account_address |-> a[3],
     usdc_address |-> DefaultUsdcAddress(a[1], a[4]),
     payment_processor_address |-> a[5],
     user_agent |-> USER_AGENT,
     max_retries |-> a[6],
     api_key |-> NoneVal]

\* the exception TachiConfig(...) raises for the arguments a, "" for none:
\* neither the dataclass nor __post_init__ checks a field
ConstructionError(a) == ""

\* every way a config is constructed
ConfigArguments ==
    Networks \X BOOLEAN \X {NoneVal, ACCOUNT_ADDR} \X {NoneVal, ChecksumForm(TOKEN_HDR)}
             \X {NoneVal, PROCESSOR_ADDR} \X (MinRetries..MaxRetries)

\* the configs the payment flow is explored with: a supported network and
\* the default token contract; account_address is read by no step of the
\* flow, and is left out when a private key is given
FlowArguments ==
    {a \in ConfigArguments : /\ a[1] = "base-sepolia"
                             /\ a[4] = NoneVal
                             /\ (a[2] => a[3] = NoneVal)}

(* ------------------------------------------------------------------ *)
(* State                                                               *)
(* ------------------------------------------------------------------ *)

VARIABLES
    config,    \* TachiConfig of the client
    ledger,    \* the chain: token balance, allowances, account nonce, transactions
    fl,        \* per process: the locals of its fetch_with_tachi call
    log,       \* every externally observable event, in order
    callers    \* the processes that call the client

vars == <<config, ledger, fl, log, callers>>

NoRequest == [url |-> EmptyStr, method |-> "", headers |-> NoHeaders, body |-> NoneVal]

NoDetails ==
    [kind |-> "none", transaction_hash |-> NoneVal, status |-> 0, url |-> NoneVal,
     last_error |-> NoneVal, error |-> NoneVal]

\* message is the text of the exception where the code formats values into
\* it, NoneVal otherwise
NoError == [type |-> "", code |-> "", message |-> NoneVal, details |-> NoDetails]

\* what get_usdc_balance returns
NoBalance == [wei |-> 0, formatted |-> NoneVal]

NoResult ==
    [status_code |-> 0, payment_required |-> FALSE, payment_amount |-> NoneVal,
     transaction_hash |-> NoneVal]

NoResponse ==
    [status_code |-> 0, price |-> NoneVal, currency |-> NoneVal, recipient |-> NoneVal,
     contract |-> NoneVal, chain_id |-> NoneVal, body |-> NonJsonBody]

IdleFlow ==
    [pc |-> "idle", call |-> "", attempt |-> 0, last_error |-> NoneVal,
     req |-> NoRequest, http_headers |-> NoHeaders, initial_response |-> NoResponse,
     payment_info |-> NoPaymentInfo, amount_in_wei |-> <<"0">>,
     nonce |-> 0, approve_tx_hash |-> 0, payment_tx_hash |-> 0,
     transaction_hash |-> NoneVal,
     outcome |-> "none", result |-> NoResult, balance |-> NoBalance, error |-> NoError]

Ev(p, ev, n, s, req) == [p |-> p, ev |-> ev, n |-> n, s |-> s, req |-> req]

\* one attempt of session.request: the request sent and what came of it
\* (got = the status of the response, 0 when the transport raised)
\* a read of the ledger with its arguments and the value returned
QueryEv(p, name, arg, value) ==
    [p |-> p, ev |-> "query", n |-> value, s |-> name, req |-> NoRequest, arg |-> arg]

HttpEv(p, attempt, call, req, got) ==
    [p |-> p, ev |-> "http", n |-> attempt, s |-> call, req |-> req, got |-> got]

Init ==
    /\ config \in {TachiConfig(a) : a \in {b \in FlowArguments : ConstructionError(b) = ""}}
    /\ ledger \in [balance : Balances,
                   allowance : AllowanceMaps,
                   nonce : {5},
                   txs : {<<>>}]
    /\ fl = [p \in Procs |-> IdleFlow]
    /\ log = <<>>
    /\ callers = {1}

\* a client on which _parse_payment_info alone is exercised
InitParser ==
    /\ config \in {TachiConfig(a) : a \in {b \in FlowArguments :
                                              ConstructionError(b) = "" /\ b[6] = MaxRetries}}
    /\ ledger \in [balance : Balances,
                   allowance : AllowanceMaps,
                   nonce : {5},
                   txs : {<<>>}]
    /\ fl = [p \in Procs |-> IdleFlow]
    /\ log = <<>>
    /\ callers = {1}

\* the state after construction, for every config the constructor accepts
InitConfig ==
    /\ config \in {TachiConfig(a) : a \in {b \in ConfigArguments : ConstructionError(b) = ""}}
    /\ ledger \in [balance : Balances,
                   allowance : AllowanceMaps,
                   nonce : {5},
                   txs : {<<>>}]
    /\ fl = [p \in Procs |-> IdleFlow]
    /\ log = <<>>
    /\ callers = {1}

(* ------------------------------------------------------------------ *)
(* Errors and results                                                  *)
(* ------------------------------------------------------------------ *)

PaymentError(details) ==
    [type |-> "PaymentError", code |-> "PAYMENT_ERROR", message |-> NoneVal,
     details |-> details]

NetworkError(details) ==
    [type |-> "NetworkError", code |-> "NETWORK_ERROR", message |-> NoneVal,
     details |-> details]

\* TachiError(message, code) raised directly
TachiError(code) ==
    [type |-> "TachiError", code |-> code, message |-> NoneVal, details |-> NoDetails]

\* an exception that is no TachiError (ValueError, AttributeError, ...)
Untyped(type) == [type |-> type, code |-> "", message |-> NoneVal, details |-> NoDetails]

TypedErrors == {"PaymentError", "NetworkError", "ConfigError"}

Raise(f, err) == [f EXCEPT !.pc = "done", !.outcome = "raised", !.error = err]

Return(f, res) == [f EXCEPT !.pc = "done", !.outcome = "returned", !.result = res]

\* variant: the failure of a ledger call leaves as NetworkError
WrappedPaymentError_AsNetworkError(what) ==
    NetworkError([NoDetails EXCEPT !.kind = "payment_failed", !.error = what])

\* the except clause of _process_payment: any exception raised inside the
\* try block leaves as PaymentError with {payment_info, error: str(error)}
WrappedPaymentError(what) ==
    PaymentError([NoDetails EXCEPT !.kind = "payment_failed", !.error = what])

(* ------------------------------------------------------------------ *)
(* _make_http_request                                                  *)
(* ------------------------------------------------------------------ *)

\* variant: User-Agent is written into the mapping the caller passed
StartHttp_InPlace(f, call, headers) ==
    [f EXCEPT !.pc = "http", !.call = call, !.attempt = 1, !.last_error = NoneVal,
              !.http_headers = [headers EXCEPT !["User-Agent"] = config.user_agent],
              !.req.headers = [@ EXCEPT !["User-Agent"] = config.user_agent]]

\* headers = headers.copy(); headers['User-Agent'] = self.config.user_agent;
\* the loop starts at attempt 1
StartHttp(f, call, headers) ==
    [f EXCEPT !.pc = "http", !.call = call, !.attempt = 1, !.last_error = NoneVal,
              !.http_headers = [headers EXCEPT !["User-Agent"] = config.user_agent]]

\* the request one attempt sends
SentRequest(f) ==
    [url |-> f.req.url, method |-> f.req.method, headers |-> f.http_headers,
     body |-> f.req.body]

\* variant: the loop runs up to max_retries + 1
InLoop_OneMore(attempt, max_retries) == attempt >= 1 /\ attempt <= max_retries + 1

\* attempt is in range(1, max_retries + 1)
InLoop(attempt, max_retries) == attempt >= 1 /\ attempt <= max_retries

\* variant: the last attempt is recognised one attempt too late
IsLastAttempt_OffByOne(attempt, max_retries) == attempt > max_retries

IsLastAttempt(attempt, max_retries) == attempt = max_retries

\* variant: the exponent starts at zero
Backoff_FromZero(attempt) == 2 ^ (attempt - 1)

\* time.sleep(2 ** attempt)
Backoff(attempt) == 2 ^ attempt

\* str(error) of the transport failure of an attempt
TransportError(attempt) == <<"RequestException", DigitStr[attempt + 1]>>

\* what one attempt can come to: 0 (the transport raised) or a status
AttemptStatuses == {0} \cup PlainStatuses \cup ReplayStatuses

\* variant: a 5xx response is handled as a failed attempt
TransportFailed_Or5xx(status_code) == status_code = 0 \/ status_code >= 500

\* the except clause is entered: session.request raised RequestException
\* and produced no response
TransportFailed(status_code) == status_code = 0

\* variant: the first failure is kept
RecordLastError_First(last_error, error) ==
    IF last_error = NoneVal THEN error ELSE last_error

\* last_error = error
RecordLastError(last_error, error) == error

\* f"Request failed after {max_retries} attempts"
ExhaustedMessage(max_retries) ==
    <<"Request failed after ">> \o IntToDigits(max_retries) \o <<" attempts">>

\* f"Request failed: {last_error}"
NoAttemptMessage(last_error) ==
    <<"Request failed: ">> \o (IF last_error = NoneVal THEN <<"None">> ELSE last_error)

\* variant: the details name the payment the flow has made
ExhaustedDetails_WithHash(f, last_error) ==
    [NoDetails EXCEPT !.kind = "exhausted", !.url = f.req.url, !.last_error = last_error,
                      !.transaction_hash = f.transaction_hash]

\* {"url": url, "last_error": str(last_error)}
ExhaustedDetails(f, last_error) ==
    [NoDetails EXCEPT !.kind = "exhausted", !.url = f.req.url, !.last_error = last_error]

\* one attempt fails at transport level (requests.RequestException)
HttpTransportFailure(p) ==
    LET f == fl[p]
        e == RecordLastError(f.last_error, TransportError(f.attempt))
    IN /\ f.pc = "http"
       /\ InLoop(f.attempt, config.max_retries)
       /\ \E got \in AttemptStatuses :
           LET sent == HttpEv(p, f.attempt, f.call, SentRequest(f), got)
           IN /\ TransportFailed(got)
              /\ IF IsLastAttempt(f.attempt, config.max_retries)
                 THEN /\ fl' = [fl EXCEPT ![p] =
                                  Raise([f EXCEPT !.last_error = e],
                                        [NetworkError(ExhaustedDetails(f, e))
                                           EXCEPT !.message = ExhaustedMessage(config.max_retries)])]
                      /\ log' = log \o <<sent>>
                 ELSE /\ fl' = [fl EXCEPT ![p] = [f EXCEPT !.last_error = e, !.attempt = @ + 1]]
                      /\ log' = log \o <<sent, Ev(p, "sleep", Backoff(f.attempt), f.call, NoRequest)>>
       /\ UNCHANGED <<config, ledger, callers>>

\* the loop body never ran (max_retries <= 0): line 296
HttpNoAttempt(p) ==
    LET f == fl[p]
    IN /\ f.pc = "http"
       /\ ~InLoop(f.attempt, config.max_retries)
       /\ fl' = [fl EXCEPT ![p] =
                   Raise(f, [NetworkError(NoDetails)
                               EXCEPT !.message = NoAttemptMessage(f.last_error)])]
       /\ UNCHANGED <<config, ledger, log, callers>>

(* ------------------------------------------------------------------ *)
(* fetch_with_tachi                                                    *)
(* ------------------------------------------------------------------ *)

\* fetch_with_tachi is called: headers = headers or {}; first request
CallWith(p, requests) ==
    /\ p \in callers
    /\ fl[p].pc = "idle"
    /\ \E r \in requests :
          fl' = [fl EXCEPT ![p] = StartHttp([fl[p] EXCEPT !.req = r], "initial", r.headers)]
    /\ UNCHANGED <<config, ledger, log, callers>>

Call(p) == CallWith(p, CallerRequests)

\* variant: every 4xx status is taken as a payment demand
PaymentRequiredStatus_Any4xx(status_code) == status_code >= 400 /\ status_code < 500

PaymentRequiredStatus(status_code) == status_code = 402

UnpaidResult(response) ==
    [status_code |-> response.status_code, payment_required |-> FALSE,
     payment_amount |-> NoneVal, transaction_hash |-> NoneVal]

\* variant: the paid result leaves out the transaction hash
PaidResult_NoHash(status_code, payment_info, transaction_hash) ==
    [status_code |-> status_code, payment_required |-> TRUE,
     payment_amount |-> payment_info.amount, transaction_hash |-> NoneVal]

PaidResult(status_code, payment_info, transaction_hash) ==
    [status_code |-> status_code, payment_required |-> TRUE,
     payment_amount |-> payment_info.amount, transaction_hash |-> transaction_hash]

\* _initialize_account: self.account is set from the private key only; a
\* configured account_address is logged and not kept
AccountInitialized(cfg) == cfg.has_private_key

\* _process_payment up to its first ledger call: the account check and the
\* conversion of the amount, both outside the try block
ProcessPaymentEntry(f, info) ==
    IF ~AccountInitialized(config)
    THEN Raise(f, PaymentError(NoDetails))
    ELSE IF ~DecimalOf(info.amount).ok
    THEN Raise(f, Untyped("InvalidOperation"))
    ELSE [f EXCEPT !.pc = "balance", !.payment_info = info,
                   !.amount_in_wei = AmountInWei(info.amount)]

\* lines 218-235: what fetch_with_tachi does with the initial response
OnInitialResponse(f, response) ==
    IF ~PaymentRequiredStatus(response.status_code)
    THEN Return(f, UnpaidResult(response))
    ELSE LET parsed == ParsePaymentInfo(response)
         IN IF parsed.raised = "PaymentError"
            THEN Raise(f, PaymentError([NoDetails EXCEPT !.kind = "payment_info"]))
            ELSE IF parsed.raised # ""
            THEN Raise(f, Untyped(parsed.raised))
            ELSE ProcessPaymentEntry(f, parsed.info)

\* an attempt of the initial request yields a response
InitialResponseFrom(p, responses) ==
    LET f == fl[p]
    IN /\ f.pc = "http"
       /\ f.call = "initial"
       /\ InLoop(f.attempt, config.max_retries)
       /\ \E r \in responses :
           LET sent == HttpEv(p, f.attempt, f.call, SentRequest(f), r.status_code)
           IN
             /\ ~TransportFailed(r.status_code)
             /\ fl' = [fl EXCEPT ![p] = OnInitialResponse([f EXCEPT !.initial_response = r], r)]
             /\ log' = log \o <<sent, Ev(p, "response", r.status_code, f.call, NoRequest)>>
                           \o (IF PaymentRequiredStatus(r.status_code)
                               THEN <<Ev(p, "parse", 0, ParsePaymentInfo(r).raised, NoRequest)>>
                               ELSE <<>>)
       /\ UNCHANGED <<config, ledger, callers>>

InitialResponse(p) == InitialResponseFrom(p, InitialResponses)

(* ------------------------------------------------------------------ *)
(* _process_payment: the ledger steps (all inside the try block)       *)
(* ------------------------------------------------------------------ *)

\* variant: the balance (base units) is compared with the human amount
InsufficientBalance_HumanUnits(balance, amount_in_wei) ==
    BigLess(IntToDigits(balance), DecToInt(DecDivUnit(DecimalOf(amount_in_wei))))

\* balance < amount_in_wei
InsufficientBalance(balance, amount_in_wei) == BigLess(IntToDigits(balance), amount_in_wei)

\* variant: an allowance equal to the amount is taken as insufficient
NeedsApproval_OrEqual(allowance, amount_in_wei) ==
    ~BigLess(amount_in_wei, IntToDigits(allowance))

\* variant: the approval step is skipped
NeedsApproval_Never(allowance, amount_in_wei) == FALSE

\* allowance < amount_in_wei
NeedsApproval(allowance, amount_in_wei) == BigLess(IntToDigits(allowance), amount_in_wei)

\* self.config.payment_processor_address or payment_info['recipient']
PublisherAddress(cfg, info) ==
    IF Truthy(cfg.payment_processor_address) THEN cfg.payment_processor_address
    ELSE info.recipient

\* HexBytes.hex() of a transaction hash
HexOf(h) == <<"0x">> \o IntToDigits(h)

\* usdc_contract.functions.balanceOf(account).call() and the funds check
BalanceQuery(p) ==
    LET f == fl[p]
        balance == ledger.balance
    IN /\ f.pc = "balance"
       /\ fl' = [fl EXCEPT ![p] =
                   IF InsufficientBalance(balance, f.amount_in_wei)
                   THEN Raise(f, WrappedPaymentError(<<"Insufficient USDC balance">>))
                   ELSE [f EXCEPT !.pc = "allowance"]]
       /\ log' = Append(log, Ev(p, "query", balance, "balanceOf", NoRequest))
       /\ UNCHANGED <<config, ledger, callers>>

\* usdc_contract.functions.allowance(account, recipient).call()
AllowanceQuery(p) ==
    LET f == fl[p]
        allowance == ledger.allowance[f.payment_info.recipient]
    IN /\ f.pc = "allowance"
       /\ fl' = [fl EXCEPT ![p] =
                   [f EXCEPT !.pc = IF NeedsApproval(allowance, f.amount_in_wei)
                                    THEN "approve_build" ELSE "payment_build"]]
       /\ log' = Append(log, QueryEv(p, "allowance", <<ACCOUNT, f.payment_info.recipient>>,
                                     allowance))
       /\ UNCHANGED <<config, ledger, callers>>

\* variant: the nonce is read once per flow and kept for its later
\* transactions
TransactionCount_Cached(f, l) == IF f.nonce # 0 THEN f.nonce ELSE l.nonce

\* w3.eth.get_transaction_count(account.address): the number of mined
\* transactions of the account, read from the node for every build
TransactionCount(f, l) == l.nonce

\* build_transaction: gas price and nonce are read, in that order
BuildTx(p, at, next) ==
    LET f == fl[p]
        nonce == TransactionCount(f, ledger)
    IN /\ f.pc = at
       /\ fl' = [fl EXCEPT ![p] = [f EXCEPT !.pc = next, !.nonce = nonce]]
       /\ log' = log \o <<Ev(p, "query", 0, "gas_price", NoRequest),
                          Ev(p, "query", nonce, "nonce", NoRequest)>>
       /\ UNCHANGED <<config, ledger, callers>>

ApproveBuild(p) == BuildTx(p, "approve_build", "approve_send")

PaymentBuild(p) == BuildTx(p, "payment_build", "payment_send")

\* variant: the approval names the other spender
ApproveTx_OtherSpender(f) ==
    [kind |-> "approve", from |-> ACCOUNT, nonce |-> f.nonce,
     to |-> f.payment_info.token_address,
     addr |-> CHOOSE s \in Spenders : s # f.payment_info.recipient,
     amount |-> f.amount_in_wei, mined |-> FALSE, reverted |-> FALSE]

\* approve(recipient, amount_in_wei) on the token contract
ApproveTx(f) ==
    [kind |-> "approve", from |-> ACCOUNT, nonce |-> f.nonce, to |-> f.payment_info.token_address,
     addr |-> f.payment_info.recipient, amount |-> f.amount_in_wei, mined |-> FALSE, reverted |-> FALSE]

\* payPublisher(publisher_address, amount_in_wei) on the contract at recipient
PaymentTx(f) ==
    [kind |-> "payPublisher", from |-> ACCOUNT, nonce |-> f.nonce, to |-> f.payment_info.recipient,
     addr |-> PublisherAddress(config, f.payment_info), amount |-> f.amount_in_wei,
     mined |-> FALSE, reverted |-> FALSE]

\* variant: the payment is built without waiting for the approval receipt
AfterApproveSent_NoWait == "payment_build"

\* after send_raw_transaction of the approval the flow waits for its receipt
AfterApproveSent == "approve_wait"

\* sign_transaction and send_raw_transaction: the hash is the position of
\* the transaction among those the node accepted
ApproveSend(p) ==
    LET f == fl[p]
        h == Len(ledger.txs) + 1
    IN /\ f.pc = "approve_send"
       /\ ledger' = [ledger EXCEPT !.txs = Append(@, ApproveTx(f))]
       /\ fl' = [fl EXCEPT ![p] = [f EXCEPT !.pc = AfterApproveSent, !.approve_tx_hash = h]]
       /\ log' = Append(log, Ev(p, "tx", h, "approve", NoRequest))
       /\ UNCHANGED <<config, callers>>

PaymentSend(p) ==
    LET f == fl[p]
        h == Len(ledger.txs) + 1
    IN /\ f.pc = "payment_send"
       /\ ledger' = [ledger EXCEPT !.txs = Append(@, PaymentTx(f))]
       /\ fl' = [fl EXCEPT ![p] = [f EXCEPT !.pc = "payment_wait", !.payment_tx_hash = h]]
       /\ log' = Append(log, Ev(p, "tx", h, "payPublisher", NoRequest))
       /\ UNCHANGED <<config, callers>>

\* the chain mines transaction h: only a transaction carrying the account's
\* current nonce can be mined
Mineable(h) == ~ledger.txs[h].mined /\ ledger.txs[h].nonce = ledger.nonce

\* variant: approve adds the amount to the allowance
ApproveEffect_Adds(l, tx) ==
    [l EXCEPT !.allowance[tx.addr] = @ + DigitsToInt(tx.amount)]

\* ERC-20 approve: the allowance of the spender becomes the amount
ApproveEffect(l, tx) ==
    [l EXCEPT !.allowance[tx.addr] = DigitsToInt(tx.amount)]

\* settlement: the contract at tx.to pulls the amount from the payer when
\* balance and allowance cover it; otherwise the transaction reverts
PaySucceeds(l, tx) ==
    LET amt == DigitsToInt(tx.amount)
    IN l.balance >= amt /\ l.allowance[tx.to] >= amt

PayEffect(l, tx) ==
    LET amt == DigitsToInt(tx.amount)
    IN IF PaySucceeds(l, tx)
       THEN [l EXCEPT !.balance = @ - amt, !.allowance[tx.to] = @ - amt]
       ELSE l

Mined(l, h) == [l EXCEPT !.nonce = @ + 1, !.txs[h].mined = TRUE]

\* wait_for_transaction_receipt(approve_tx_hash) returns
ApproveWait(p) ==
    LET f == fl[p]
        h == f.approve_tx_hash
    IN /\ f.pc = "approve_wait"
       /\ Mineable(h)
       /\ ledger' = Mined(ApproveEffect(ledger, ledger.txs[h]), h)
       /\ fl' = [fl EXCEPT ![p] = [f EXCEPT !.pc = "payment_build"]]
       /\ log' = Append(log, Ev(p, "confirmed", h, "approve", NoRequest))
       /\ UNCHANGED <<config, callers>>

\* variant: the proof header carries the bare hash, without the scheme
AuthHeaders_NoScheme(headers, transaction_hash) ==
    [headers EXCEPT !["Authorization"] = transaction_hash]

\* headers.copy() with Authorization = "Bearer <hash>"
AuthHeaders(headers, transaction_hash) ==
    [headers EXCEPT !["Authorization"] = <<"Bearer ">> \o transaction_hash]

\* wait_for_transaction_receipt(payment_tx_hash) returns, for a reverted
\* transaction too (the receipt's status is not read); _process_payment
\* returns the hash as hex and fetch_with_tachi starts the replay request
PaymentWait(p) ==
    LET f == fl[p]
        h == f.payment_tx_hash
        hex == HexOf(h)
    IN /\ f.pc = "payment_wait"
       /\ Mineable(h)
       /\ ledger' = Mined([PayEffect(ledger, ledger.txs[h])
                              EXCEPT !.txs[h].reverted = ~PaySucceeds(ledger, ledger.txs[h])], h)
       /\ fl' = [fl EXCEPT ![p] =
                   StartHttp([f EXCEPT !.transaction_hash = hex], "replay",
                             AuthHeaders(f.req.headers, hex))]
       /\ log' = Append(log, Ev(p, "confirmed", h, "payPublisher", NoRequest))
       /\ UNCHANGED <<config, callers>>

LedgerPcs ==
    {"balance", "allowance", "approve_build", "approve_send", "approve_wait",
     "payment_build", "payment_send", "payment_wait"}

\* a ledger call raises (RPC error, rejected transaction, receipt timeout):
\* the except clause turns it into PaymentError
LedgerCallFailsAt(p, pcs) ==
    LET f == fl[p]
    IN /\ f.pc \in pcs
       /\ fl' = [fl EXCEPT ![p] = Raise(f, WrappedPaymentError(<<"ledger call failed">>))]
       /\ log' = Append(log, Ev(p, "ledger_error", 0, f.pc, NoRequest))
       /\ UNCHANGED <<config, ledger, callers>>

LedgerCallFails(p) == LedgerCallFailsAt(p, LedgerPcs)

\* variant: any 2xx status is accepted as verification
ReplayVerified_Any2xx(status_code) == status_code >= 200 /\ status_code < 300

\* paid_response.status_code == 200
ReplayVerified(status_code) == status_code = 200

\* variant: a replay answered 402 makes the flow pay again
OnReplayResponse_PayAgain(f, status_code) ==
    IF status_code = 402 THEN [f EXCEPT !.pc = "payment_build"]
    ELSE IF ~ReplayVerified(status_code)
    THEN Raise(f, PaymentError([NoDetails EXCEPT !.kind = "verification",
                                                 !.transaction_hash = f.transaction_hash,
                                                 !.status = status_code]))
    ELSE Return(f, PaidResult(status_code, f.payment_info, f.transaction_hash))

\* lines 244-257: what fetch_with_tachi does with the replayed response
OnReplayResponse(f, status_code) ==
    IF ~ReplayVerified(status_code)
    THEN Raise(f, PaymentError([NoDetails EXCEPT !.kind = "verification",
                                                 !.transaction_hash = f.transaction_hash,
                                                 !.status = status_code]))
    ELSE Return(f, PaidResult(status_code, f.payment_info, f.transaction_hash))

\* an attempt of the replayed request yields a response
ReplayResponseFrom(p, statuses) ==
    LET f == fl[p]
    IN /\ f.pc = "http"
       /\ f.call = "replay"
       /\ InLoop(f.attempt, config.max_retries)
       /\ \E st \in statuses :
           LET sent == HttpEv(p, f.attempt, f.call, SentRequest(f), st)
           IN
             /\ ~TransportFailed(st)
             /\ fl' = [fl EXCEPT ![p] = OnReplayResponse(f, st)]
             /\ log' = log \o <<sent, Ev(p, "response", st, f.call, NoRequest)>>
       /\ UNCHANGED <<config, ledger, callers>>

ReplayResponse(p) == ReplayResponseFrom(p, ReplayStatuses)

(* ------------------------------------------------------------------ *)
(* get_usdc_balance                                                    *)
(* ------------------------------------------------------------------ *)

\* str(Decimal(balance) / Decimal(10**6))
FormatBalance(balance) == DecStr(DecDivUnit(DecimalOf(IntToDigits(balance))))

\* get_usdc_balance(): the account check, then balanceOf on the contract at
\* config.usdc_address; a contract built with address None cannot be called
GetUsdcBalance(p) ==
    LET f == [fl[p] EXCEPT !.call = "get_usdc_balance"]
        balance == ledger.balance
    IN /\ p \in callers
       /\ fl[p].pc = "idle"
       /\ IF ~AccountInitialized(config)
          THEN /\ fl' = [fl EXCEPT ![p] = Raise(f, TachiError("CONFIG_ERROR"))]
               /\ log' = log
          ELSE IF config.usdc_address = NoneVal
          THEN /\ fl' = [fl EXCEPT ![p] = Raise(f, Untyped("ValueError"))]
               /\ log' = log
          ELSE /\ fl' = [fl EXCEPT ![p] =
                           [f EXCEPT !.pc = "done", !.outcome = "returned",
                                     !.balance = [wei |-> balance,
                                                  formatted |-> FormatBalance(balance)]]]
               /\ log' = Append(log, Ev(p, "query", balance, "balanceOf", NoRequest))
       /\ UNCHANGED <<config, ledger, callers>>

Next ==
    \E p \in Procs :
        \/ Call(p)
        \/ HttpTransportFailure(p)
        \/ HttpNoAttempt(p)
        \/ InitialResponse(p)
        \/ BalanceQuery(p)
        \/ AllowanceQuery(p)
        \/ ApproveBuild(p)
        \/ ApproveSend(p)
        \/ ApproveWait(p)
        \/ PaymentBuild(p)
        \/ PaymentSend(p)
        \/ PaymentWait(p)
        \/ LedgerCallFails(p)
        \/ ReplayResponse(p)
        \/ GetUsdcBalance(p)

Spec == Init /\ [][Next]_vars

(* ------------------------------------------------------------------ *)
(* Two flows of one account at the same time                           *)
(* ------------------------------------------------------------------ *)

\* the one request both flows make
SharedRequest == [url |-> URL, method |-> "GET", headers |-> NoHeaders, body |-> NoneVal]

\* the 402 both flows receive: 500000 base units of USDC for RECIP_HDR
SharedDemand ==
    [status_code |-> 402, price |-> PRICE_HALF, currency |-> STR_USDC,
     recipient |-> RECIP_HDR, contract |-> TOKEN_HDR, chain_id |-> NoneVal,
     body |-> NonJsonBody]

\* what the server answers to a replayed request: verified, or demanded again
SharedVerdicts == {200, 402}

\* the ledger calls that fail here: a receipt wait that times out
ReceiptWaits == {"approve_wait", "payment_wait"}

\* a balance that covers the demand once and not twice
BALANCE_ONCE == 500000

\* one client with a private key and a single attempt per request, called
\* by two threads
InitTwo ==
    /\ config \in {TachiConfig(a) : a \in {b \in FlowArguments :
                                              /\ ConstructionError(b) = ""
                                              /\ b[2]
                                              /\ b[5] = NoneVal
                                              /\ b[6] = 1}}
    /\ ledger \in [balance : {BALANCE_ONCE},
                   allowance : AllowanceMaps,
                   nonce : {5},
                   txs : {<<>>}]
    /\ fl = [p \in Procs |-> IdleFlow]
    /\ log = <<>>
    /\ callers = Procs

NextTwo ==
    \E p \in Procs :
        \/ CallWith(p, {SharedRequest})
        \/ InitialResponseFrom(p, {SharedDemand})
        \/ BalanceQuery(p)
        \/ AllowanceQuery(p)
        \/ ApproveBuild(p)
        \/ ApproveSend(p)
        \/ ApproveWait(p)
        \/ PaymentBuild(p)
        \/ PaymentSend(p)
        \/ PaymentWait(p)
        \/ LedgerCallFailsAt(p, ReceiptWaits)
        \/ ReplayResponseFrom(p, SharedVerdicts)

SpecTwo == InitTwo /\ [][NextTwo]_vars

(* ------------------------------------------------------------------ *)
(* One call of fetch_with_tachi run to its end                         *)
(* ------------------------------------------------------------------ *)

\* what the first request is answered with: no demand, or the demand of
\* 500000 base units
DemandOrNot == PlainResponses \cup {SharedDemand}

NextFair ==
    \E p \in Procs :
        \/ CallWith(p, {SharedRequest})
        \/ HttpTransportFailure(p)
        \/ HttpNoAttempt(p)
        \/ InitialResponseFrom(p, DemandOrNot)
        \/ BalanceQuery(p)
        \/ AllowanceQuery(p)
        \/ ApproveBuild(p)
        \/ ApproveSend(p)
        \/ ApproveWait(p)
        \/ PaymentBuild(p)
        \/ PaymentSend(p)
        \/ PaymentWait(p)
        \/ LedgerCallFails(p)
        \/ ReplayResponseFrom(p, SharedVerdicts)

\* the calling thread keeps running: every step of a call is a computation
\* or a call that returns or raises (requests are sent with a timeout,
\* time.sleep returns, ledger calls and receipt waits return or raise)
SpecFair == Init /\ [][NextFair]_vars /\ WF_vars(NextFair)

\* _parse_payment_info(response) applied to one 402 response
ParseTerms(p) ==
    LET f == [fl[p] EXCEPT !.call = "_parse_payment_info"]
    IN /\ p \in callers
       /\ fl[p].pc = "idle"
       /\ \E r \in ParserResponses :
             LET parsed == ParsePaymentInfo(r)
                 g == [f EXCEPT !.initial_response = r]
             IN /\ fl' = [fl EXCEPT ![p] =
                            IF parsed.raised = ""
                            THEN [g EXCEPT !.pc = "done", !.outcome = "returned",
                                           !.payment_info = parsed.info]
                            ELSE IF parsed.raised = "PaymentError"
                            THEN Raise(g, PaymentError([NoDetails EXCEPT !.kind = "payment_info"]))
                            ELSE Raise(g, Untyped(parsed.raised))]
                /\ log' = Append(log, Ev(p, "parse", 0, parsed.raised, NoRequest))
       /\ UNCHANGED <<config, ledger, callers>>

NextParser == \E p \in Procs : ParseTerms(p)

SpecParser == InitParser /\ [][NextParser]_vars

(* ------------------------------------------------------------------ *)
(* register_crawler                                                    *)
(* ------------------------------------------------------------------ *)

API_KEY == <<"key-1">>

\* what the registration endpoint can answer: a transport or HTTP error
\* (raise_for_status), a result without apiKey, a result with apiKey
RegistrationAnswers == {"error", "registered", "registered_with_key"}

\* register_crawler(): POST to the API; an apiKey in the result is stored
\* on self.config
RegisterCrawler(p) ==
    LET f == [fl[p] EXCEPT !.call = "register_crawler"]
    IN /\ p \in callers
       /\ fl[p].pc = "idle"
       /\ \E answer \in RegistrationAnswers :
             /\ fl' = [fl EXCEPT ![p] =
                         IF answer = "error"
                         THEN Raise(f, NetworkError([NoDetails EXCEPT !.kind = "registration"]))
                         ELSE [f EXCEPT !.pc = "done", !.outcome = "returned"]]
             /\ config' = IF answer = "registered_with_key"
                           THEN [config EXCEPT !.api_key = API_KEY]
                           ELSE config
             /\ log' = Append(log, Ev(p, "rest", 0, answer, NoRequest))
       /\ UNCHANGED <<ledger, callers>>

\* the operations that need no payment flow, on every constructed client
NextConfig == \E p \in Procs : GetUsdcBalance(p) \/ RegisterCrawler(p)

SpecConfig == InitConfig /\ [][NextConfig]_vars

(* ------------------------------------------------------------------ *)
(* Observations on the event log                                       *)
(* ------------------------------------------------------------------ *)

\* positions of the events of process p of kind ev and name s
Events(p, ev, s) ==
    {i \in DOMAIN log : log[i].p = p /\ log[i].ev = ev /\ log[i].s = s}

EventsOfKind(p, ev) == {i \in DOMAIN log : log[i].p = p /\ log[i].ev = ev}

LedgerQueries(p) == EventsOfKind(p, "query")

Transactions(p) == EventsOfKind(p, "tx")

\* the backoff delays process p slept during the given request, in order
RECURSIVE DelaysFrom(_, _, _)
DelaysFrom(p, call, i) ==
    IF i > Len(log) THEN <<>>
    ELSE (IF log[i].p = p /\ log[i].ev = "sleep" /\ log[i].s = call
          THEN <<log[i].n>> ELSE <<>>) \o DelaysFrom(p, call, i + 1)

Delays(p, call) == DelaysFrom(p, call, 1)

LastEventOf(p) ==
    LET mine == {i \in DOMAIN log : log[i].p = p}
    IN log[CHOOSE i \in mine : \A j \in mine : j <= i]

\* the numeric value of a decimal string is exactly one
IsOne(s) ==
    LET d == DecimalOf(s)
    IN d.ok /\ d.exp <= 0 /\ d.int = <<"1">> \o Zeros(0 - d.exp)

(* ------------------------------------------------------------------ *)
(* Properties                                                          *)
(* ------------------------------------------------------------------ *)

\* C1: a call whose initial response has a status other than 402 (404 and
\* 500 included) makes no ledger query, submits no transaction, sends no
\* request after that response, and returns payment_required = FALSE with
\* the status of that response.
C1_NoPaymentWithout402 ==
    \A p \in Procs : \A i \in Events(p, "response", "initial") :
        log[i].n # 402 =>
            /\ fl[p].outcome = "returned"
            /\ fl[p].result.payment_required = FALSE
            /\ fl[p].result.status_code = log[i].n
            /\ LedgerQueries(p) = {}
            /\ Transactions(p) = {}
            /\ ledger.txs = <<>>
            /\ \A j \in EventsOfKind(p, "http") : j < i /\ log[j].s = "initial"

C1_Witness ==
    \E i \in Events(1, "response", "initial") :
        /\ log[i].n \in {404, 500}
        /\ fl[1].outcome = "returned"
        /\ Cardinality(Events(1, "http", "initial")) >= 2

\* C2: when the balance read in a payment flow is strictly below the
\* required amount in base units, the call fails with PaymentError, having
\* submitted no transaction and sent no replay request.
C2_InsufficientBalanceFailsFast ==
    \A p \in Procs : \A i \in Events(p, "query", "balanceOf") :
        BigLess(IntToDigits(log[i].n), fl[p].amount_in_wei) =>
            /\ fl[p].outcome = "raised"
            /\ fl[p].error.type = "PaymentError"
            /\ Transactions(p) = {}
            /\ ledger.txs = <<>>
            /\ Events(p, "http", "replay") = {}

C2_Witness ==
    \E i \in Events(1, "query", "balanceOf") :
        /\ log[i].n = 500000
        /\ fl[1].amount_in_wei = PRICE_1USDC
        /\ fl[1].error.type = "PaymentError"

\* C3: when the allowance read is at least the required amount, the flow
\* submits no approval transaction; the only transaction it submits is the
\* one payment transaction.
C3_SufficientAllowanceSkipsApproval ==
    \A p \in Procs : \A i \in Events(p, "query", "allowance") :
        ~BigLess(IntToDigits(log[i].n), fl[p].amount_in_wei) =>
            /\ Events(p, "tx", "approve") = {}
            /\ fl[p].approve_tx_hash = 0
            /\ \A h \in DOMAIN ledger.txs : ledger.txs[h].kind = "payPublisher"
            /\ Len(ledger.txs) <= 1
            /\ Cardinality(Transactions(p)) = Len(ledger.txs)
            /\ (fl[p].pc \in {"payment_wait", "http"} \/ fl[p].outcome = "returned")
                  => Cardinality(Events(p, "tx", "payPublisher")) = 1

C3_Witness ==
    \E i \in Events(1, "query", "allowance") :
        /\ log[i].n = 1000000
        /\ fl[1].amount_in_wei = PRICE_1USDC
        /\ fl[1].outcome = "returned"
        /\ Len(ledger.txs) = 1

\* C4: every replayed request carries Authorization = "Bearer " followed by
\* the hash the payment submission of the same flow returned, and a paid
\* result carries that same hash as transaction_hash.
C4_ProofIsPaymentHash ==
    \A p \in Procs : \A i \in Events(p, "http", "replay") :
        \E j \in Events(p, "tx", "payPublisher") :
            /\ j < i
            /\ log[i].req.headers["Authorization"] = <<"Bearer ">> \o HexOf(log[j].n)
            /\ (fl[p].outcome = "returned" /\ fl[p].result.payment_required)
                  => fl[p].result.transaction_hash = HexOf(log[j].n)

C4_Witness ==
    /\ fl[1].outcome = "returned"
    /\ fl[1].result.payment_required
    /\ fl[1].req.headers["Authorization"] = <<"Basic old">>
    /\ Cardinality(Events(1, "http", "replay")) >= 2

\* the scenario of C5: balance 2,000,000, allowance 0, 1,000,000 required,
\* replay answered 200
C5_Scenario(p) ==
    /\ fl[p].amount_in_wei = IntToDigits(1000000)
    /\ \E i \in Events(p, "query", "balanceOf") : log[i].n = 2000000
    /\ \E i \in Events(p, "query", "allowance") : log[i].n = 0
    /\ \E i \in Events(p, "response", "replay") : log[i].n = 200

\* C5: in that scenario the flow submits exactly one approval and then
\* exactly one payment (the approval confirmed before the payment is
\* submitted) and returns status 200, payment_required = TRUE, an amount
\* whose value is 1.0 and a non-empty transaction hash.
C5_EndToEndSuccess ==
    \A p \in Procs :
        C5_Scenario(p) =>
            /\ Cardinality(Transactions(p)) = 2
            /\ \E a \in Events(p, "tx", "approve") :
               \E c \in Events(p, "confirmed", "approve") :
               \E t \in Events(p, "tx", "payPublisher") :
               \E d \in Events(p, "confirmed", "payPublisher") :
                   /\ a < c /\ c < t /\ t < d
                   /\ log[c].n = log[a].n
                   /\ log[d].n = log[t].n
            /\ fl[p].outcome = "returned"
            /\ fl[p].result.status_code = 200
            /\ fl[p].result.payment_required
            /\ IsOne(fl[p].result.payment_amount)
            /\ Truthy(fl[p].result.transaction_hash)

C5_Witness ==
    /\ C5_Scenario(1)
    /\ fl[1].outcome = "returned"
    /\ fl[1].result.payment_amount = <<"1">>
    /\ ledger.balance = 1000000

\* C6: when the replayed request is answered with a status other than 200
\* the call fails with PaymentError whose details carry that status and the
\* hash of the payment already made; it returns no result.
C6_RejectedProofIsPaymentError ==
    \A p \in Procs : \A i \in Events(p, "response", "replay") :
        log[i].n # 200 =>
            /\ fl[p].outcome = "raised"
            /\ fl[p].error.type = "PaymentError"
            /\ fl[p].error.details.status = log[i].n
            /\ \E j \in Events(p, "confirmed", "payPublisher") :
                  fl[p].error.details.transaction_hash = HexOf(log[j].n)

C6_Witness ==
    \E i \in Events(1, "response", "replay") :
        /\ log[i].n = 201
        /\ fl[1].error.details.status = 201
        /\ fl[1].error.details.transaction_hash = HexOf(1)

\* a request of process p on which every attempt failed, with max_retries = 2
C7_AllAttemptsFailed(p, call) ==
    /\ config.max_retries = 2
    /\ fl[p].call = call
    /\ fl[p].outcome = "raised"
    /\ fl[p].error.type = "NetworkError"

\* C7 as stated: 2 attempts, delays of 2 and then 4, then NetworkError.
C7_Original ==
    \A p \in Procs : \A call \in {"initial", "replay"} :
        C7_AllAttemptsFailed(p, call) =>
            /\ Cardinality(Events(p, "http", call)) = 2
            /\ Delays(p, call) = <<2, 4>>

\* C7 amended: with max_retries = 2 and every attempt failing there are
\* exactly 2 attempts and a single delay of 2 between them; NetworkError is
\* raised right after the second failure, with no delay of 4.
C7_TwoAttemptsOneDelay ==
    \A p \in Procs : \A call \in {"initial", "replay"} :
        C7_AllAttemptsFailed(p, call) =>
            /\ Cardinality(Events(p, "http", call)) = 2
            /\ Delays(p, call) = <<2>>
            /\ LastEventOf(p).ev = "http"

C7_Witness ==
    /\ C7_AllAttemptsFailed(1, "initial")
    /\ Cardinality(Events(1, "http", "initial")) = 2

\* an error of the configuration kind: the class the code has for it is
\* TachiError with code CONFIG_ERROR
IsConfigError(err) == err.code = "CONFIG_ERROR"

\* C8: every call ends by returning a result or by raising one typed error
\* (ConfigError, NetworkError or PaymentError); nothing untyped escapes.
C8_OnlyTypedErrors ==
    \A p \in Procs :
        fl[p].pc = "done" =>
            \/ fl[p].outcome = "returned"
            \/ /\ fl[p].outcome = "raised"
               /\ (fl[p].error.type \in TypedErrors \/ IsConfigError(fl[p].error))

\* the recipient / token address a 402 response supplies (header first)
SuppliedField(r, header, key) ==
    IF Truthy(r[header]) THEN r[header]
    ELSE IF r.body.kind = "object" /\ r.body.payment.kind = "dict" THEN r.body.payment[key]
    ELSE NoneVal

AddressMissingOrMalformed(r) ==
    \/ ~IsAddress(SuppliedField(r, "recipient", "recipient"))
    \/ ~IsAddress(SuppliedField(r, "contract", "tokenAddress"))

\* C9: a 402 response whose recipient or token address is missing or
\* malformed makes the parser fail with PaymentError carrying the partly
\* parsed terms; no ledger query and no transaction follows.
C9_BadAddressIsPaymentError ==
    \A p \in Procs :
        (fl[p].initial_response.status_code = 402
            /\ AddressMissingOrMalformed(fl[p].initial_response)) =>
            /\ fl[p].outcome = "raised"
            /\ fl[p].error.type = "PaymentError"
            /\ fl[p].error.details.kind = "payment_info"
            /\ LedgerQueries(p) = {}
            /\ Transactions(p) = {}

\* C10: in every returned result payment_amount and transaction_hash are
\* present exactly when payment_required is true, and payment_required is
\* true only if exactly one payment transaction was confirmed in the call.
C10_ResultFieldsMatchPayment ==
    \A p \in Procs :
        fl[p].outcome = "returned" =>
            /\ (fl[p].result.payment_amount # NoneVal) <=> fl[p].result.payment_required
            /\ (fl[p].result.transaction_hash # NoneVal) <=> fl[p].result.payment_required
            /\ fl[p].result.payment_required
                  => Cardinality(Events(p, "confirmed", "payPublisher")) = 1

C10_Witness ==
    /\ fl[1].outcome = "returned"
    /\ fl[1].result.payment_required
    /\ fl[1].result.payment_amount = <<"0", ".", "5">>
    /\ fl[1].result.transaction_hash = HexOf(2)

\* a call of process p whose initial response was a 402 with terms that parse
PaymentDemanded(p) ==
    /\ fl[p].initial_response.status_code = 402
    /\ ParsePaymentInfo(fl[p].initial_response).raised = ""

\* C11: a 402 received by a client that holds no signing credential makes
\* the call fail with a configuration error (not PaymentError, not
\* NetworkError), with no ledger query, no transaction and no replay.
C11_NoCredentialIsConfigError ==
    \A p \in Procs :
        (PaymentDemanded(p) /\ ~AccountInitialized(config)) =>
            /\ fl[p].outcome = "raised"
            /\ IsConfigError(fl[p].error)
            /\ fl[p].error.type \notin {"PaymentError", "NetworkError"}
            /\ LedgerQueries(p) = {}
            /\ Transactions(p) = {}
            /\ Events(p, "http", "replay") = {}

\* C12: on a client without signing credential (with or without a
\* configured account address) get_usdc_balance returns the balance instead
\* of failing, while a demanded payment is refused.
C12_BalanceAvailableReadOnly ==
    \A p \in Procs :
        ~config.has_private_key =>
            /\ (fl[p].call = "get_usdc_balance" /\ fl[p].pc = "done") =>
                  /\ fl[p].outcome = "returned"
                  /\ fl[p].balance.wei = ledger.balance
            /\ (PaymentDemanded(p) /\ fl[p].pc = "done") => fl[p].outcome = "raised"

\* the rendering tests/test_sdk.py expects of n base units: the exact
\* quotient n / 10^6, with at least one digit after the point
ExpectedRendering(n) ==
    LET s == DecStr(DecDivUnit(DecimalOf(n)))
    IN IF \E i \in 1..Len(s) : s[i] = "." THEN s ELSE s \o <<".", "0">>

\* C13: the human amount of n base units (a price header with currency
\* USDC, or a balance) is n / 10^6 exactly, rendered as the test states
\* (1000000 gives "1.0", 500000 gives "0.5").
C13_ConversionRendering ==
    \A p \in Procs :
        /\ (fl[p].payment_info # NoPaymentInfo
                /\ Truthy(fl[p].initial_response.price)
                /\ fl[p].initial_response.currency = STR_USDC) =>
              fl[p].payment_info.amount = ExpectedRendering(fl[p].initial_response.price)
        /\ (fl[p].call = "get_usdc_balance" /\ fl[p].outcome = "returned") =>
              fl[p].balance.formatted = ExpectedRendering(IntToDigits(fl[p].balance.wei))

\* a direct call of _parse_payment_info by process p that returned terms
Parsed(p) == fl[p].call = "_parse_payment_info" /\ fl[p].outcome = "returned"

\* the value of a field in the body's nested payment object, NoneVal if absent
BodyValue(r, key) == PaymentField(r.body, key, NoneVal)

\* header first, then body, then default
SourceRule(headerGiven, fromHeader, bodyValue, fromBody, fromDefault) ==
    IF headerGiven THEN fromHeader
    ELSE IF bodyValue # NoneVal THEN fromBody
    ELSE fromDefault

\* the parsed amount is the price header, as sent or scaled by 10^6
AmountFromPrice(info, r) ==
    info.amount \in {r.price, DecStr(DecDivUnit(DecimalOf(r.price)))}

\* C14 as stated: each field comes from its header when the header is
\* present, otherwise from the body, otherwise from a default that exists
\* for chain id (8453) and currency (USDC) only.
C14_Original ==
    \A p \in Procs :
        Parsed(p) =>
            LET r == fl[p].initial_response
                info == fl[p].payment_info
            IN /\ SourceRule(r.price # NoneVal, AmountFromPrice(info, r),
                             BodyValue(r, "amount"), info.amount = BodyValue(r, "amount"),
                             FALSE)
               /\ SourceRule(r.currency # NoneVal, info.currency = r.currency,
                             BodyValue(r, "currency"), info.currency = BodyValue(r, "currency"),
                             info.currency = STR_USDC)
               /\ SourceRule(r.chain_id # NoneVal, info.chain_id = DigitsToInt(r.chain_id),
                             BodyValue(r, "chainId"),
                             info.chain_id = DigitsToInt(BodyValue(r, "chainId")),
                             info.chain_id = DEFAULT_CHAIN_ID)
               /\ SourceRule(r.recipient # NoneVal, info.recipient = ChecksumForm(r.recipient),
                             BodyValue(r, "recipient"),
                             info.recipient = ChecksumForm(BodyValue(r, "recipient")),
                             FALSE)
               /\ SourceRule(r.contract # NoneVal, info.token_address = ChecksumForm(r.contract),
                             BodyValue(r, "tokenAddress"),
                             info.token_address = ChecksumForm(BodyValue(r, "tokenAddress")),
                             FALSE)

\* C14 amended: each field comes from its header when the header is present
\* and not empty, otherwise from the body, otherwise from a default that
\* exists for chain id (8453), currency (USDC) and amount ("0"); recipient
\* and token address have none.
C14_HeaderThenBodyThenDefault ==
    \A p \in Procs :
        Parsed(p) =>
            LET r == fl[p].initial_response
                info == fl[p].payment_info
            IN /\ SourceRule(Truthy(r.price), AmountFromPrice(info, r),
                             BodyValue(r, "amount"), info.amount = BodyValue(r, "amount"),
                             info.amount = <<"0">>)
               /\ SourceRule(Truthy(r.currency), info.currency = r.currency,
                             BodyValue(r, "currency"), info.currency = BodyValue(r, "currency"),
                             info.currency = STR_USDC)
               /\ SourceRule(Truthy(r.chain_id), info.chain_id = DigitsToInt(r.chain_id),
                             BodyValue(r, "chainId"),
                             info.chain_id = DigitsToInt(BodyValue(r, "chainId")),
                             info.chain_id = DEFAULT_CHAIN_ID)
               /\ SourceRule(Truthy(r.recipient), info.recipient = ChecksumForm(r.recipient),
                             BodyValue(r, "recipient"),
                             info.recipient = ChecksumForm(BodyValue(r, "recipient")),
                             FALSE)
               /\ SourceRule(Truthy(r.contract), info.token_address = ChecksumForm(r.contract),
                             BodyValue(r, "tokenAddress"),
                             info.token_address = ChecksumForm(BodyValue(r, "tokenAddress")),
                             FALSE)

\* headers and body both name every field, with different values
C14_Witness ==
    /\ Parsed(1)
    /\ fl[1].initial_response.body = FullBody
    /\ fl[1].initial_response.price = PRICE_HALF
    /\ fl[1].initial_response.currency = STR_DAI
    /\ fl[1].payment_info.amount = PRICE_HALF
    /\ fl[1].payment_info.currency = STR_DAI
    /\ fl[1].payment_info.chain_id = 1
    /\ fl[1].payment_info.recipient = ChecksumForm(RECIP_HDR)
    /\ fl[1].payment_info.token_address = ChecksumForm(TOKEN_HDR)

\* C15: an attempt that yields a response of any status ends the request:
\* the response is returned at once, no attempt and no backoff delay
\* follows, and the number of attempts made equals the index of that
\* attempt, every earlier attempt having failed at transport level.
C15_NoRetryOnStatus ==
    \A p \in Procs : \A i \in EventsOfKind(p, "http") :
        log[i].got # 0 =>
            /\ i + 1 \in Events(p, "response", log[i].s)
            /\ log[i + 1].n = log[i].got
            /\ \A j \in Events(p, "http", log[i].s) \cup Events(p, "sleep", log[i].s) : j < i + 1
            /\ Cardinality(Events(p, "http", log[i].s)) = log[i].n
            /\ \A j \in Events(p, "http", log[i].s) : j < i => log[j].got = 0

C15_Witness ==
    \E i \in Events(1, "http", "initial") :
        /\ log[i].got = 500
        /\ log[i].n = 2
        /\ fl[1].outcome = "returned"
        /\ fl[1].result.status_code = 500

\* C16: when every attempt of a request failed, the NetworkError raised
\* names the number of attempts made and carries the description of the
\* failure of the final attempt.
C16_ExhaustionCarriesLastFailure ==
    \A p \in Procs : \A call \in {"initial", "replay"} :
        LET n == Cardinality(Events(p, "http", call))
        IN (/\ fl[p].call = call
            /\ fl[p].outcome = "raised"
            /\ fl[p].error.type = "NetworkError"
            /\ n >= 1) =>
               /\ \A i \in Events(p, "http", call) : log[i].got = 0
               /\ n = config.max_retries
               /\ fl[p].error.message =
                     <<"Request failed after ">> \o IntToDigits(n) \o <<" attempts">>
               /\ fl[p].error.details.last_error = TransportError(n)

C16_Witness ==
    /\ fl[1].call = "replay"
    /\ fl[1].outcome = "raised"
    /\ fl[1].error.type = "NetworkError"
    /\ Cardinality(Events(1, "http", "replay")) = 3
    /\ fl[1].error.details.last_error = TransportError(3)

\* the networks the SDK supports (the annotation of TachiConfig.network)
SupportedNetworks == {"base", "base-sepolia"}

\* C17: no constructed client has a network outside the supported ones or
\* an undefined token contract address.
C17_UnsupportedNetworkRejected ==
    /\ config.network \in SupportedNetworks
    /\ config.usdc_address # NoneVal

\* the place of an event in the order of one fetch_with_tachi invocation;
\* 0 for the events the order does not speak of
Rank(e) ==
    IF e.ev \in {"http", "sleep", "response"} THEN (IF e.s = "initial" THEN 1 ELSE 9)
    ELSE IF e.ev = "parse" THEN 2
    ELSE IF e.ev = "query" /\ e.s = "balanceOf" THEN 3
    ELSE IF e.ev = "query" /\ e.s = "allowance" THEN 4
    ELSE IF e.ev = "tx" /\ e.s = "approve" THEN 5
    ELSE IF e.ev = "confirmed" /\ e.s = "approve" THEN 6
    ELSE IF e.ev = "tx" /\ e.s = "payPublisher" THEN 7
    ELSE IF e.ev = "confirmed" /\ e.s = "payPublisher" THEN 8
    ELSE 0

\* the events of process p at the given place
Ranked(p, k) == {i \in DOMAIN log : log[i].p = p /\ Rank(log[i]) = k}

\* process p runs or ran fetch_with_tachi
InFetch(p) == fl[p].call \in {"initial", "replay"}

\* C18: within one invocation the events happen in the order initial
\* request, parsing, balance query, allowance query, approval submission
\* and confirmation (if any), payment submission and confirmation, replay;
\* each step once, each after the steps it depends on; the payment is not
\* submitted before a submitted approval is confirmed, the replay not
\* before the payment is confirmed.
C18_StepOrder ==
    \A p \in Procs :
        InFetch(p) =>
            /\ \A i, j \in {k \in DOMAIN log : log[k].p = p /\ Rank(log[k]) > 0} :
                  i < j => Rank(log[i]) <= Rank(log[j])
            /\ \A k \in 2..8 : Cardinality(Ranked(p, k)) <= 1
            /\ \A k \in {2, 3, 4, 7, 8, 9} :
                  Ranked(p, k) # {} =>
                     \A m \in {1, 2, 3, 4, 7, 8} : m < k => Ranked(p, m) # {}
            /\ Ranked(p, 6) # {} => Ranked(p, 5) # {}
            /\ (Ranked(p, 7) # {} /\ Ranked(p, 5) # {}) =>
                  \E c \in Ranked(p, 6) : \A t \in Ranked(p, 7) : c < t
            /\ Ranked(p, 9) # {} =>
                  \E c \in Ranked(p, 8) : \A r \in Ranked(p, 9) : c < r

C18_Witness ==
    /\ InFetch(1)
    /\ fl[1].outcome = "returned"
    /\ \A k \in 1..9 : Ranked(1, k) # {}

\* C19: in one invocation, whatever fails, at most one approval
\* transaction and at most one payment transaction are submitted.
C19_NoPaymentRetry ==
    \A p \in Procs :
        /\ Cardinality(Events(p, "tx", "approve")) <= 1
        /\ Cardinality(Events(p, "tx", "payPublisher")) <= 1
        /\ Cardinality({h \in DOMAIN ledger.txs : ledger.txs[h].kind = "approve"})
              = Cardinality(UNION {Events(q, "tx", "approve") : q \in Procs})
        /\ Cardinality({h \in DOMAIN ledger.txs : ledger.txs[h].kind = "payPublisher"})
              = Cardinality(UNION {Events(q, "tx", "payPublisher") : q \in Procs})

\* the proof was rejected with 402 after an approval and a payment
C19_Witness ==
    /\ fl[1].outcome = "raised"
    /\ fl[1].error.details.kind = "verification"
    /\ fl[1].error.details.status = 402
    /\ Cardinality(Events(1, "tx", "approve")) = 1
    /\ Cardinality(Events(1, "tx", "payPublisher")) = 1

\* the steps of the approval and of the payment
TransactionSteps ==
    {"approve_build", "approve_send", "approve_wait",
     "payment_build", "payment_send", "payment_wait"}

\* C20: when a step of the approval or of the payment fails, the call
\* fails with PaymentError wrapping the failure, nothing follows the
\* failure (no replay request, no further transaction), and an approval
\* confirmed before the failure keeps its allowance on the ledger.
C20_FailedPaymentLeavesApproval ==
    \A p \in Procs : \A i \in EventsOfKind(p, "ledger_error") :
        log[i].s \in TransactionSteps =>
            /\ fl[p].outcome = "raised"
            /\ fl[p].error.type = "PaymentError"
            /\ fl[p].error.details.kind = "payment_failed"
            /\ fl[p].error.details.error # NoneVal
            /\ Events(p, "http", "replay") = {}
            /\ \A j \in DOMAIN log : log[j].p = p => j <= i
            /\ Len(ledger.txs) = Cardinality(Transactions(p))
            /\ \A h \in DOMAIN ledger.txs :
                  ledger.txs[h].kind = "approve" =>
                     /\ ledger.txs[h].amount = fl[p].amount_in_wei
                     /\ ledger.txs[h].mined =>
                           ledger.allowance[fl[p].payment_info.recipient]
                              = DigitsToInt(fl[p].amount_in_wei)

\* the payment was submitted and its confirmation failed, after an
\* approval was confirmed
C20_Witness ==
    \E i \in Events(1, "ledger_error", "payment_wait") :
        /\ Events(1, "confirmed", "approve") # {}
        /\ fl[1].error.type = "PaymentError"
        /\ ledger.allowance[fl[1].payment_info.recipient] = 1000000
        /\ ledger.balance = 2000000

\* C21: with max_retries >= 1 a request makes at most max_retries attempts;
\* the i-th delay is 2^i and lies between attempt i and attempt i + 1: there
\* are as many delays as attempts less one, or as many as attempts while
\* the next attempt, still within max_retries, is about to be made.
C21_BackoffSchedule ==
    \A p \in Procs : \A call \in {"initial", "replay"} :
        LET attempts == Cardinality(Events(p, "http", call))
            delays == Delays(p, call)
            pending == fl[p].pc = "http" /\ fl[p].call = call
        IN config.max_retries >= 1 =>
              /\ attempts <= config.max_retries
              /\ \A i \in Events(p, "http", call) :
                    log[i].n = Cardinality({j \in Events(p, "http", call) : j <= i})
              /\ \A i \in 1..Len(delays) : delays[i] = 2 ^ i
              /\ \A i \in Events(p, "sleep", call) :
                    /\ log[i - 1].p = p /\ log[i - 1].ev = "http" /\ log[i - 1].s = call
                    /\ log[i].n = 2 ^ log[i - 1].n
              /\ IF pending /\ fl[p].attempt > attempts
                 THEN /\ Len(delays) = attempts
                      /\ fl[p].attempt = attempts + 1
                      /\ fl[p].attempt <= config.max_retries
                 ELSE Len(delays) = (IF attempts = 0 THEN 0 ELSE attempts - 1)

\* three attempts, the third answered: delays 2 and 4 and none after
C21_Witness ==
    /\ config.max_retries = MaxRetries
    /\ Cardinality(Events(1, "http", "replay")) = 3
    /\ Delays(1, "replay") = <<2, 4>>
    /\ Events(1, "response", "replay") # {}

\* C22: whenever a price header is supplied and the currency of the parsed
\* terms is USDC (from the header, the body or the default), the parsed
\* amount is the price divided by 10^6 and the base-unit amount of the flow
\* is the price itself.
C22_UsdcPriceIsBaseUnits ==
    \A p \in Procs :
        (/\ fl[p].payment_info # NoPaymentInfo
         /\ Truthy(fl[p].initial_response.price)
         /\ fl[p].payment_info.currency = STR_USDC) =>
            /\ fl[p].payment_info.amount = DecStr(DecDivUnit(DecimalOf(fl[p].initial_response.price)))
            /\ fl[p].amount_in_wei = StripLeadingZeros(fl[p].initial_response.price)

\* a flow of process p whose terms came with a price header and the
\* currency header USDC
PricedInUsdc(p) ==
    /\ fl[p].payment_info # NoPaymentInfo
    /\ Truthy(fl[p].initial_response.price)
    /\ fl[p].initial_response.currency = STR_USDC

\* C23: for a price p in base units sent with the currency header USDC, the
\* integer compared with the balance, compared with the allowance, approved
\* and paid is exactly p, the same in all four places.
C23_AmountRoundTrip ==
    \A p \in Procs :
        PricedInUsdc(p) =>
            LET price == StripLeadingZeros(fl[p].initial_response.price)
            IN /\ fl[p].amount_in_wei = price
               /\ \A i \in Events(p, "query", "balanceOf") :
                     BigLess(IntToDigits(log[i].n), price)
                        <=> (/\ fl[p].outcome = "raised"
                             /\ fl[p].error.details.error = <<"Insufficient USDC balance">>)
               /\ \A i \in Events(p, "query", "allowance") :
                     /\ Events(p, "tx", "approve") # {} => BigLess(IntToDigits(log[i].n), price)
                     /\ (Events(p, "tx", "payPublisher") # {} /\ Events(p, "tx", "approve") = {})
                           => ~BigLess(IntToDigits(log[i].n), price)
               /\ \A i \in Transactions(p) : ledger.txs[log[i].n].amount = price

\* one base unit: "0.000001" in human units and 1 again on the ledger
C23_Witness ==
    /\ PricedInUsdc(1)
    /\ fl[1].initial_response.price = PRICE_1UNIT
    /\ fl[1].payment_info.amount = <<"0", ".", "0", "0", "0", "0", "0", "1">>
    /\ Cardinality(Events(1, "tx", "approve")) = 1
    /\ Cardinality(Events(1, "confirmed", "payPublisher")) = 1
    /\ \A h \in DOMAIN ledger.txs : ledger.txs[h].amount = <<"1">>

\* the approval step of process p is complete and its payment not yet sent
\* for confirmation
ApprovalEnsured(p) == fl[p].pc \in {"payment_build", "payment_send", "payment_wait"}

\* C24: the approval a flow submits names the (owner, spender) pair whose
\* allowance the flow read, for the required amount; once the step is
\* complete the allowance of that pair is at least the required amount, so
\* that the step run again on the same ledger would submit nothing.
C24_ApprovalIdempotent ==
    \A p \in Procs :
        /\ \A a \in Events(p, "tx", "approve") :
              LET tx == ledger.txs[log[a].n]
              IN /\ \E q \in Events(p, "query", "allowance") :
                        q < a /\ log[q].arg = <<tx.from, tx.addr>>
                 /\ tx.amount = fl[p].amount_in_wei
        /\ ApprovalEnsured(p) =>
              \E q \in Events(p, "query", "allowance") :
                  LET spender == log[q].arg[2]
                  IN /\ log[q].arg[1] = ACCOUNT
                     /\ ~BigLess(IntToDigits(ledger.allowance[spender]), fl[p].amount_in_wei)
                     /\ Cardinality(Events(p, "tx", "approve")) <= 1

\* an approval of 500000 was confirmed where 1000000 had been granted to
\* the other spender
C24_Witness ==
    /\ ApprovalEnsured(1)
    /\ Events(1, "confirmed", "approve") # {}
    /\ fl[1].amount_in_wei = PRICE_HALF
    /\ ledger.allowance[fl[1].payment_info.recipient] = 500000
    /\ \E s \in Spenders : ledger.allowance[s] = 1000000

\* C25: every payment transaction pays the recipient named in the parsed
\* terms exactly the required amount, and is sent to the configured
\* settlement contract when one is configured.
C25_PaysNamedRecipient ==
    \A p \in Procs : \A t \in Events(p, "tx", "payPublisher") :
        LET tx == ledger.txs[log[t].n]
        IN /\ tx.addr = fl[p].payment_info.recipient
           /\ tx.amount = fl[p].amount_in_wei
           /\ Truthy(config.payment_processor_address)
                 => tx.to = config.payment_processor_address

\* C26: the replayed request has the url, method and body of the original
\* request and its headers, except Authorization, which carries the proof;
\* the request the caller passed, its headers mapping included, is as the
\* caller made it (no Authorization proof and no User-Agent written to it).
C26_ReplayReusesRequest ==
    \A p \in Procs :
        /\ fl[p].req \in CallerRequests \cup {NoRequest}
        /\ \A j \in Events(p, "http", "initial") :
              /\ log[j].req.url = fl[p].req.url
              /\ log[j].req.method = fl[p].req.method
              /\ log[j].req.body = fl[p].req.body
              /\ \A h \in HeaderNames \ {"User-Agent"} :
                    log[j].req.headers[h] = fl[p].req.headers[h]
        /\ \A i \in Events(p, "http", "replay") :
              /\ log[i].req.headers["Authorization"] = <<"Bearer ">> \o fl[p].transaction_hash
              /\ \A j \in Events(p, "http", "initial") :
                    /\ log[i].req.url = log[j].req.url
                    /\ log[i].req.method = log[j].req.method
                    /\ log[i].req.body = log[j].req.body
                    /\ \A h \in HeaderNames \ {"Authorization"} :
                          log[i].req.headers[h] = log[j].req.headers[h]

\* a POST with a body, a custom header and an Authorization of the caller
C26_Witness ==
    \E i \in Events(1, "http", "replay") :
        /\ log[i].req.method = "POST"
        /\ log[i].req.body = <<"data">>
        /\ log[i].req.headers["X-Custom"] = <<"v">>
        /\ log[i].req.headers["Authorization"] # <<"Basic old">>
        /\ fl[1].req.headers["Authorization"] = <<"Basic old">>
        /\ fl[1].req.headers["User-Agent"] = NoneVal
        /\ fl[1].outcome = "returned"

\* the process whose flow submitted transaction h
Submitter(h) == log[CHOOSE i \in DOMAIN log : log[i].ev = "tx" /\ log[i].n = h].p

\* where the payment flow of p begins in the log (the terms were parsed and
\* _process_payment is entered) and where it ends (the last event of a call
\* that has returned or raised)
PaymentStart(p) == Events(p, "parse", "")

FlowEnd(p) ==
    IF fl[p].pc = "done"
    THEN CHOOSE i \in DOMAIN log : log[i].p = p /\ \A j \in DOMAIN log : log[j].p = p => j <= i
    ELSE Len(log) + 1

\* the payment flows of p and q were in flight at the same time
Overlapped(p, q) ==
    \E i \in PaymentStart(p) : \E j \in PaymentStart(q) :
        i <= FlowEnd(q) /\ j <= FlowEnd(p)

\* two distinct transactions of the account carry the same nonce
SameNonce(h1, h2) ==
    /\ h1 \in DOMAIN ledger.txs
    /\ h2 \in DOMAIN ledger.txs
    /\ h1 < h2
    /\ ledger.txs[h1].nonce = ledger.txs[h2].nonce

\* transaction h was still unconfirmed when its flow ended, and the flow of
\* q began after that
LeftUnconfirmed(h, q) ==
    /\ ~ledger.txs[h].mined
    /\ fl[Submitter(h)].pc = "done"
    /\ \A j \in PaymentStart(q) : FlowEnd(Submitter(h)) < j

\* C27 as stated: two distinct transactions carry the same nonce only when
\* the payment flows that submitted them were in flight at the same time;
\* with at most one payment flow in flight the state is unreachable.
C27_Original ==
    \A h1, h2 \in DOMAIN ledger.txs :
        SameNonce(h1, h2) =>
            /\ Submitter(h1) # Submitter(h2)
            /\ Overlapped(Submitter(h1), Submitter(h2))

\* C27 amended: two distinct transactions carry the same nonce only when
\* they come from two flows that were in flight at the same time, or when
\* the earlier one was left unconfirmed by a flow that ended (its receipt
\* wait failed) before the other flow began: serialising the flows rules the
\* state out only if no earlier transaction of the account is still pending.
C27_NonceRace ==
    \A h1, h2 \in DOMAIN ledger.txs :
        SameNonce(h1, h2) =>
            /\ Submitter(h1) # Submitter(h2)
            /\ \/ Overlapped(Submitter(h1), Submitter(h2))
               \/ LeftUnconfirmed(h1, Submitter(h2))

\* two flows in flight at the same time, each waiting for the receipt of a
\* transaction that carries the nonce of the other
C27_Witness ==
    /\ SameNonce(1, 2)
    /\ Submitter(1) # Submitter(2)
    /\ Overlapped(1, 2)
    /\ fl[1].pc \in {"approve_wait", "payment_wait"}
    /\ fl[2].pc \in {"approve_wait", "payment_wait"}
    /\ ~ledger.txs[1].mined
    /\ ~ledger.txs[2].mined

\* C28: no operation of a client changes its config.
C28_ConfigImmutable == [][config' = config]_vars

\* every attempt of the replay of process p failed, after its payment was
\* confirmed
ReplayExhausted(p) ==
    /\ fl[p].call = "replay"
    /\ fl[p].outcome = "raised"
    /\ Events(p, "http", "replay") # {}
    /\ \A i \in Events(p, "http", "replay") : log[i].got = 0

\* C29: when the payment was confirmed and every attempt of the replay
\* fails at transport level, the call raises NetworkError whose details
\* hold the url and the last transport error and nothing of the payment:
\* the hash of the confirmed payment reaches the caller neither in the
\* error nor in a result, and no transaction follows.
C29_ReplayFailureLosesHash ==
    \A p \in Procs :
        ReplayExhausted(p) =>
            /\ Events(p, "confirmed", "payPublisher") # {}
            /\ Truthy(fl[p].transaction_hash)
            /\ fl[p].error.type = "NetworkError"
            /\ fl[p].error.details =
                  [NoDetails EXCEPT !.kind = "exhausted", !.url = fl[p].req.url,
                                    !.last_error = fl[p].last_error]
            /\ fl[p].error.details.transaction_hash = NoneVal
            /\ fl[p].error.message =
                  <<"Request failed after ">> \o IntToDigits(config.max_retries) \o <<" attempts">>
            /\ fl[p].result = NoResult
            /\ \A i \in Transactions(p) :
                  \A j \in Events(p, "http", "replay") : i < j
            /\ \A h \in DOMAIN ledger.txs : ledger.txs[h].mined

C29_Witness ==
    /\ ReplayExhausted(1)
    /\ Cardinality(Events(1, "http", "replay")) = 2
    /\ fl[1].transaction_hash = HexOf(2)
    /\ ledger.balance = 1500000

\* the hashes of the payment transactions of p that were mined and reverted
RevertedPayments(p) ==
    {h \in DOMAIN ledger.txs : /\ ledger.txs[h].kind = "payPublisher"
                               /\ ledger.txs[h].reverted
                               /\ Submitter(h) = p}

\* the payment of another flow took effect between position i of the log
\* and the confirmation of transaction h
PaidInBetween(p, i, h) ==
    \E q \in Procs \ {p} : \E c \in Events(q, "confirmed", "payPublisher") :
    \E d \in Events(p, "confirmed", "payPublisher") :
        /\ log[d].n = h
        /\ i < c
        /\ c < d
        /\ ~ledger.txs[log[c].n].reverted

C31_Bounds ==
    \A p \in Procs :
        InFetch(p) =>
            /\ \A call \in {"initial", "replay"} :
                  Cardinality(Events(p, "http", call))
                      <= (IF config.max_retries > 0 THEN config.max_retries ELSE 0)
            /\ Cardinality(EventsOfKind(p, "http"))
                  <= (IF config.max_retries > 0 THEN 2 * config.max_retries ELSE 0)
            /\ Cardinality(Transactions(p)) <= 2
            /\ Len(ledger.txs) <= 2
            /\ config.max_retries <= 0 =>
                  /\ \A i \in DOMAIN log : log[i].p # p
                  /\ fl[p].pc = "done" =>
                        /\ fl[p].outcome = "raised"
                        /\ fl[p].error.type = "NetworkError"

\* C31: a call of fetch_with_tachi that has begun ends (returns or raises),
\* and at every moment its attempts and transactions are within the bounds
\* above.
C31_TerminatesWithinBounds ==
    /\ []C31_Bounds
    /\ \A p \in Procs : (InFetch(p) /\ fl[p].pc # "done") ~> (fl[p].pc = "done")

\* a call that used up both bounds: max_retries attempts on each of the two
\* requests, an approval and a payment, and then returned
C31_Witness ==
    /\ config.max_retries = MaxRetries
    /\ InFetch(1)
    /\ fl[1].outcome = "returned"
    /\ Cardinality(Events(1, "http", "initial")) = MaxRetries
    /\ Cardinality(Events(1, "http", "replay")) = MaxRetries
    /\ Cardinality(Transactions(1)) = 2

\* the nonce transaction h carries is the account's nonce: the current one
\* while h is pending, the one before the current one once h, the latest
\* transaction, is mined
CarriesAccountNonce(h) ==
    IF ledger.txs[h].mined
    THEN h = Len(ledger.txs) => ledger.nonce = ledger.txs[h].nonce + 1
    ELSE ledger.txs[h].nonce = ledger.nonce

\* C32: in a flow that is alone on the account the approval and the payment
\* never carry the same nonce: every nonce read after the approval was sent
\* comes after its confirmation, the payment carries the approval's nonce
\* plus one, and a payment without approval carries the account's current
\* nonce.
C32_ApprovalAndPaymentNonces ==
    \A p \in Procs :
        /\ \A a \in Events(p, "tx", "approve") :
              /\ \A q \in Events(p, "query", "nonce") :
                    a < q => \E c \in Events(p, "confirmed", "approve") :
                                c < q /\ log[c].n = log[a].n
              /\ \A t \in Events(p, "tx", "payPublisher") :
                    /\ a < t
                    /\ ledger.txs[log[t].n].nonce = ledger.txs[log[a].n].nonce + 1
        /\ \A t \in Events(p, "tx", "payPublisher") :
              /\ \E q \in Events(p, "query", "nonce") :
                    /\ q < t
                    /\ log[q].n = ledger.txs[log[t].n].nonce
                    /\ \A r \in Events(p, "query", "nonce") : r <= q \/ t < r
              /\ CarriesAccountNonce(log[t].n)
        /\ \A h1, h2 \in DOMAIN ledger.txs :
              h1 # h2 => ledger.txs[h1].nonce # ledger.txs[h2].nonce

\* a flow that approved and paid: two mined transactions with nonces one
\* apart
C32_Witness ==
    /\ fl[1].outcome = "returned"
    /\ Len(ledger.txs) = 2
    /\ ledger.txs[1].kind = "approve"
    /\ ledger.txs[2].kind = "payPublisher"
    /\ ledger.txs[2].nonce = ledger.txs[1].nonce + 1
    /\ ledger.txs[1].mined /\ ledger.txs[2].mined

====
